---- MODULE Spec2Model ----
(***************************************************************************)
(* Model of two parts of the repository:                                   *)
(*   - bpexts/hbp/parallel/linear.py: HBPParallelLinear, a parallel group  *)
(*     of linear layers with unite / split and a shared mean_input buffer; *)
(*   - backpack/extensions/secondorder/diag_ggn: the DiagGGN and           *)
(*     BatchDiagGGN extensions and their linear / convolution handlers.    *)
(* Tensors are modelled as sequences of integers (a matrix is a sequence   *)
(* of rows); a buffer is an index into the heap `bufs`, so that two        *)
(* references to one tensor object are told apart from two equal copies.   *)
(***************************************************************************)
EXTENDS Integers, Sequences, FiniteSets, TLC

\* ------------------------------------------------------------------ bounds
MaxChildren == 2
MaxOps == 2
MaxForward == 1
MaxBatch == 2
MaxSub == 2
Rank == 2
OutDim == 2
InDim == 2
KernelSize == 2
SignalLen == 3
MaxEntries == 2

\* the shapes, seeds and inputs the model draws from
InFeatureChoices == {1, 2}
OutFeatureChoices == {1, 2}
Seeds == {1}
XSeeds == {1}
DataSeeds == {0, 1}

VARIABLES
    orig,      \* the group G built directly from layers
    cur,       \* the group obtained from G by the unite / split calls so far
    res,       \* outcome of the last unite / split call
    prev,      \* outcome of the call before it
    bufs,      \* heap of mean_input tensors: bufs[id] is the value of buffer id
    fw,        \* record of the last forward pass
    nops,      \* number of unite / split calls so far
    nfw        \* number of forward passes so far

pvars == <<orig, cur, res, prev, bufs, fw, nops, nfw>>

VARIABLES
    problem,   \* the extended layer with its recorded input, the square-root
               \* GGN arriving at its output, and the caller's subsampling
    sweep      \* per extension ("agg": DiagGGNExact, "bat": BatchDiagGGNExact)
               \* the extension object, the position of its sweep and the
               \* result buffers it has saved

gvars == <<problem, sweep>>

VARIABLES
    act,       \* an elementwise layer (Dropout, Softplus) with what its
               \* forward pass recorded
    deriv      \* outcome of the last call of df / d2f on it

avars == <<act, deriv>>

vars == <<pvars, gvars, avars>>

\* ------------------------------------------------------- tensor helpers
RECURSIVE SumSeq(_)
SumSeq(s) == IF s = <<>> THEN 0 ELSE Head(s) + SumSeq(Tail(s))

\* a cumsum that does not accumulate
cumsum_flat(s) == s

\* numpy.cumsum
RECURSIVE cumsum(_)
cumsum(s) ==
    IF s = <<>> THEN <<>>
    ELSE LET n == Len(s)
             c == cumsum(SubSeq(s, 1, n - 1))
         IN Append(c, (IF n = 1 THEN 0 ELSE c[n - 1]) + s[n])

\* a concatenation in reverse order
RECURSIVE cat_reversed(_)
cat_reversed(ts) ==
    IF ts = <<>> THEN <<>> ELSE cat_reversed(Tail(ts)) \o Head(ts)

\* torch.cat along dimension 0
RECURSIVE cat(_)
cat(ts) == IF ts = <<>> THEN <<>> ELSE Head(ts) \o cat(Tail(ts))

\* a slice that loses its last row: t[i:j-1]
PySlice_short(t, i, j) == SubSeq(t, i + 1, j - 1)

\* Python slice t[i:j] along dimension 0 (negative bounds count from the end)
PySlice(t, i, j) ==
    LET n == Len(t)
        norm(k) == IF k < 0 THEN (IF k + n < 0 THEN 0 ELSE k + n)
                   ELSE (IF k > n THEN n ELSE k)
        a == norm(i)
        b == norm(j)
    IN IF a >= b THEN <<>> ELSE SubSeq(t, a + 1, b)

Dot(u, v) == SumSeq([k \in 1..Len(u) |-> u[k] * v[k]])

Zeros(n) == [k \in 1..n |-> 0]

\* ------------------------------------------------------------ HBPLinear
NoBuf == 0

\* A new layer: parameters hold their initial values, the layer's own
\* extension hooks are enabled and it has no buffer.
HBPLinear(in_features, out_features, bias) ==
    [in_features |-> in_features,
     out_features |-> out_features,
     weight |-> [r \in 1..out_features |-> Zeros(in_features)],
     has_bias |-> bias,
     bias |-> IF bias THEN Zeros(out_features) ELSE <<>>,
     exts |-> TRUE,
     mean_input |-> NoBuf]

disable_exts(l) == [l EXCEPT !.exts = FALSE]

\* ---------------------------------------------------- HBPParallelLinear
NoGroup == [children |-> <<>>, out_features_list |-> <<>>,
            mean_input |-> NoBuf, hooks |-> 0]

\* hbp_hooks: the group registers one pre-forward hook
hbp_hooks == 1

\* a constructor that leaves the layers' hooks on
ParallelInit_keeps_hooks(layers) ==
    [children |-> layers, out_features_list |-> <<>>, mean_input |-> NoBuf,
     hooks |-> 1]

\* __init__: every layer's hooks are disabled, then the group is built
ParallelInit(layers) ==
    [children |-> [k \in 1..Len(layers) |-> disable_exts(layers[k])],
     out_features_list |-> <<>>,
     mean_input |-> NoBuf,
     hooks |-> hbp_hooks]

\* children that never receive the reference
store_ref_nowhere(g) == g

store_ref_to_mean_input_in_children(g) ==
    [g EXCEPT !.children =
        [k \in 1..Len(g.children) |->
            [g.children[k] EXCEPT !.mean_input = g.mean_input]]]

\* an AttributeError that is not caught
copy_mean_input_uncaught(self, parallel) ==
    IF self.mean_input = NoBuf
    THEN [status |-> "AttributeError", group |-> NoGroup, warnings |-> 0]
    ELSE [status |-> "ok",
          group |-> [parallel EXCEPT
                       !.mean_input = self.mean_input,
                       !.children = [k \in 1..Len(parallel.children) |->
                           [parallel.children[k] EXCEPT
                               !.mean_input = self.mean_input]]],
          warnings |-> 0]

\* the try block that copies the buffer of the input over to `parallel`:
\* reading self.mean_input raises AttributeError when the buffer is absent
\* (the exception is caught and turned into a warning)
copy_mean_input(self, parallel) ==
    IF self.mean_input = NoBuf
    THEN [status |-> "ok", group |-> parallel, warnings |-> 1]
    ELSE [status |-> "ok",
          group |-> store_ref_to_mean_input_in_children(
                        [parallel EXCEPT !.mean_input = self.mean_input]),
          warnings |-> 0]

\* a check that only asks for some value
consistent_nonempty(values) == Cardinality(values) >= 1

\* the consistency check of unite: the children agree on one value
consistent(values) == Cardinality(values) = 1

\* a check with the wrong comparison
valid_splitting_atleast(out_features_list, united_list) ==
    SumSeq(out_features_list) >= SumSeq(united_list)

\* the consistency check of split: the sizes sum to the merged total
valid_splitting(out_features_list, united_list) ==
    SumSeq(out_features_list) = SumSeq(united_list)

\* an exception leaves the call; `self` is the receiver as the call left it
Failure(self, error, trace) ==
    [status |-> error, group |-> NoGroup, warnings |-> 0, trace |-> trace,
     self |-> self]

\* a merge that reuses the first child of the receiver as the merged layer
unite_inplace(self) ==
    LET ch == self.children
        out_features == SumSeq([k \in 1..Len(ch) |-> ch[k].out_features])
        in_features == {ch[k].in_features : k \in 1..Len(ch)}
        has_bias == {ch[k].has_bias : k \in 1..Len(ch)}
    IN IF ~consistent(in_features)
       THEN Failure(self, "ValueError", <<"in_features">>)
       ELSE IF ~consistent(has_bias)
       THEN Failure(self, "ValueError", <<"in_features", "has_bias">>)
       ELSE
        LET layer1 == [ch[1] EXCEPT
                         !.out_features = out_features,
                         !.weight = cat([k \in 1..Len(ch) |-> ch[k].weight])]
            layer == IF ch[1].has_bias
                     THEN [layer1 EXCEPT
                             !.bias = cat([k \in 1..Len(ch) |-> ch[k].bias])]
                     ELSE layer1
            parallel == [ParallelInit(<<layer>>) EXCEPT
                           !.out_features_list = <<out_features>>]
            c == copy_mean_input(self, parallel)
            trace == <<"in_features", "has_bias", "layer">>
            written == [self EXCEPT !.children[1] = disable_exts(layer)]
        IN IF c.status # "ok" THEN Failure(written, c.status, trace)
           ELSE [status |-> "ok", group |-> c.group, warnings |-> c.warnings,
                 trace |-> trace, self |-> written]

\* unite reads the children of the receiver and writes only the layer and
\* the group it creates
unite(self) ==
    LET ch == self.children
        out_features == SumSeq([k \in 1..Len(ch) |-> ch[k].out_features])
        in_features == {ch[k].in_features : k \in 1..Len(ch)}
        has_bias == {ch[k].has_bias : k \in 1..Len(ch)}
    IN IF ~consistent(in_features)
       THEN Failure(self, "ValueError", <<"in_features">>)
       ELSE IF ~consistent(has_bias)
       THEN Failure(self, "ValueError", <<"in_features", "has_bias">>)
       ELSE
        LET inf == CHOOSE x \in in_features : TRUE
            hb == CHOOSE x \in has_bias : TRUE
            layer0 == HBPLinear(inf, out_features, hb)
            layer1 == [layer0 EXCEPT
                         !.weight = cat([k \in 1..Len(ch) |-> ch[k].weight])]
            layer == IF hb
                     THEN [layer1 EXCEPT
                             !.bias = cat([k \in 1..Len(ch) |-> ch[k].bias])]
                     ELSE layer1
            parallel == [ParallelInit(<<layer>>) EXCEPT
                           !.out_features_list = <<out_features>>]
            c == copy_mean_input(self, parallel)
            trace == <<"in_features", "has_bias", "layer">>
        IN IF c.status # "ok" THEN Failure(self, c.status, trace)
           ELSE [status |-> "ok", group |-> c.group, warnings |-> c.warnings,
                 trace |-> trace, self |-> self]

\* row ranges that all start at the first row
row_ranges_from_zero(out_features_list) ==
    LET c == cumsum(out_features_list)
    IN [i \in 1..Len(c) |-> <<0, c[i]>>]

\* idx in split: the pairs (c_{i-1}, c_i) of consecutive cumulative sums,
\* with c_0 = 0
row_ranges(out_features_list) ==
    LET idx0 == <<0>> \o cumsum(out_features_list)
    IN [i \in 1..(Len(idx0) - 1) |-> <<idx0[i], idx0[i + 1]>>]

\* the constructor of a linear layer allocates an out_features x in_features
\* weight: a negative size raises
constructible(in_features, out_features) ==
    in_features >= 0 /\ out_features >= 0

\* split writes the receiver only where its call of unite does
split(self, out_features_list) ==
    LET u == unite(self)
    IN IF u.status # "ok" THEN [u EXCEPT !.trace = <<"unite">>]
       ELSE IF ~valid_splitting(out_features_list, u.group.out_features_list)
       THEN Failure(u.self, "ValueError", <<"unite", "check">>)
       ELSE
        LET united == u.group
            linear == united.children[1]
            in_features == linear.in_features
            has_bias == linear.has_bias
            idx == row_ranges(out_features_list)
            unbuilt == {n \in 1..Len(out_features_list) :
                          ~constructible(in_features, out_features_list[n])}
            first_unbuilt == CHOOSE n \in unbuilt : \A m \in unbuilt : n <= m
            child(n) ==
                LET c0 == HBPLinear(in_features, out_features_list[n], has_bias)
                    c1 == [c0 EXCEPT
                             !.weight = PySlice(linear.weight, idx[n][1], idx[n][2])]
                IN IF has_bias
                   THEN [c1 EXCEPT
                           !.bias = PySlice(linear.bias, idx[n][1], idx[n][2])]
                   ELSE c1
            layers == [n \in 1..Len(out_features_list) |-> child(n)]
            parallel == [ParallelInit(layers) EXCEPT
                           !.out_features_list = out_features_list]
            c == copy_mean_input(self, parallel)
            trace == <<"unite", "check">>
                     \o [n \in 1..Len(out_features_list) |-> "child"]
        IN IF unbuilt # {}
           THEN Failure(u.self, "RuntimeError",
                        <<"unite", "check">>
                        \o [n \in 1..first_unbuilt |-> "child"])
           ELSE IF c.status # "ok" THEN Failure(u.self, c.status, trace)
           ELSE [status |-> "ok", group |-> c.group,
                 warnings |-> u.warnings + c.warnings, trace |-> trace,
                 self |-> u.self]

\* ---------------------------------------------------------- forward pass
\* HBPLinear.store_mean_input: the batch average of the input becomes a new
\* tensor, registered as the module's buffer mean_input
MeanInput(input) ==
    LET N == Len(input)
    IN [i \in 1..Len(input[1]) |->
          SumSeq([n \in 1..N |-> input[n][i]]) \div N]

store_mean_input(module, input, heap) ==
    [module |-> [module EXCEPT !.mean_input = Len(heap) + 1],
     heap |-> Append(heap, MeanInput(input)),
     writes |-> 1]

\* store_mean_input_with_ref: write the group's buffer, then hand the
\* reference to every child
store_mean_input_with_ref(module, input, heap) ==
    LET s == store_mean_input(module, input, heap)
    IN [s EXCEPT !.module = store_ref_to_mean_input_in_children(s.module)]

\* the pre-forward hooks of the children, run in group order: a child whose
\* extension hooks are enabled stores its own mean input
RECURSIVE child_hooks(_, _, _)
child_hooks(children, input, heap) ==
    IF children = <<>> THEN [children |-> <<>>, heap |-> heap, writes |-> 0]
    ELSE LET c == Head(children)
             s == IF c.exts THEN store_mean_input(c, input, heap)
                  ELSE [module |-> c, heap |-> heap, writes |-> 0]
             rest == child_hooks(Tail(children), input, s.heap)
         IN [children |-> <<s.module>> \o rest.children,
             heap |-> rest.heap,
             writes |-> s.writes + rest.writes]

\* the output of one linear layer for one sample: W x + b
LinearForward(l, x) ==
    [r \in 1..Len(l.weight) |->
        Dot(l.weight[r], x) + (IF l.has_bias THEN l.bias[r] ELSE 0)]

\* the output of the group for one sample: the children's outputs, concatenated
\* along the feature axis
GroupForward(g, x) ==
    cat([k \in 1..Len(g.children) |-> LinearForward(g.children[k], x)])

Accepts(g, x) == \A k \in 1..Len(g.children) : g.children[k].in_features = Len(x)

\* one forward pass of a group on a batch: the group's pre-forward hooks, the
\* children's hooks, then the output of every sample
forward(g, input, heap) ==
    LET h == IF g.hooks > 0 THEN store_mean_input_with_ref(g, input, heap)
             ELSE [module |-> g, heap |-> heap, writes |-> 0]
        c == child_hooks(h.module.children, input, h.heap)
        ok == \A n \in 1..Len(input) : Accepts(g, input[n])
    IN [group |-> [h.module EXCEPT !.children = c.children],
        heap |-> c.heap,
        writes |-> h.writes + c.writes,
        ok |-> ok,
        output |-> IF ok THEN [n \in 1..Len(input) |-> GroupForward(g, input[n])]
                   ELSE <<>>]

\* ------------------------------------------------------------ the inputs
\* initial parameter values of the layers handed to the group: a function of
\* the seed, with pairwise different entries
InitWeight(seed, c, out_features, in_features) ==
    [r \in 1..out_features |->
        [j \in 1..in_features |->
            seed * (((c - 1) * 10 + (r - 1)) * 10 + j)]]

InitBias(seed, c, out_features) ==
    [r \in 1..out_features |-> 0 - seed * ((c - 1) * 10 + r)]

UserLayer(seed, c, in_features, out_features, bias) ==
    [HBPLinear(in_features, out_features, bias) EXCEPT
        !.weight = InitWeight(seed, c, out_features, in_features),
        !.bias = IF bias THEN InitBias(seed, c, out_features) ELSE <<>>]

LayerShapes ==
    [in_features : InFeatureChoices, out_features : OutFeatureChoices,
     bias : BOOLEAN]

\* the batch of a forward pass: xseed + 1 samples
Batch(xseed, in_features) ==
    [n \in 1..(xseed + 1) |-> [i \in 1..in_features |-> xseed + (n - 1) * i]]

\* the partitions a caller may ask split for
SizeLists ==
    UNION {[1..k -> OutFeatureChoices] : k \in 1..MaxChildren}

\* every list of sizes a caller can pass, a size being any integer from one
\* below zero to one above the largest layer
WideSizes == (0 - 1)..3

WideSizeLists ==
    UNION {[1..k -> WideSizes] : k \in 1..MaxChildren}

NoResult ==
    [op |-> "none", arg |-> <<>>, src |-> NoGroup, status |-> "none",
     group |-> NoGroup, warnings |-> 0, trace |-> <<>>, after |-> NoGroup]

NoForward == [writes |-> 0, ok |-> FALSE, output |-> <<>>, input |-> <<>>]

Result(op, arg, src, r) ==
    [op |-> op, arg |-> arg, src |-> src, status |-> r.status,
     group |-> r.group, warnings |-> r.warnings, trace |-> r.trace,
     after |-> r.self]

\* ------------------------------------------------------- diagonal GGN
Sq(x) == x * x

AllSamples == [all |-> TRUE, idx |-> <<>>]

Indices(idx) == [all |-> FALSE, idx |-> idx]

\* subsample: the rows of `tensor` at the given indices, the whole tensor
\* without a subsampling; an index outside [0, batch_size) is an error
subsample(tensor, subsampling) ==
    IF subsampling.all THEN [ok |-> TRUE, value |-> tensor]
    ELSE IF \E k \in 1..Len(subsampling.idx) :
               subsampling.idx[k] < 0 \/ subsampling.idx[k] >= Len(tensor)
    THEN [ok |-> FALSE, value |-> <<>>]
    ELSE [ok |-> TRUE,
          value |-> [k \in 1..Len(subsampling.idx) |->
                        tensor[subsampling.idx[k] + 1]]]

subsample_input(module, subsampling) == subsample(module.input0, subsampling)

\* the patch view of a one-dimensional input: X[n][i][p] is the i-th entry of
\* the receptive field of output position p
unfold(module, input) ==
    [n \in 1..Len(input) |->
        [i \in 1..module.kernel_size |->
            [q \in 1..(Len(input[n]) - module.kernel_size + 1) |->
                input[n][q + i - 1]]]]

Raised == [ok |-> FALSE, value |-> <<>>]

Value(v) == [ok |-> TRUE, value |-> v]

\* backpack.utils.linear: element (o, i) of the weight diagonal is, per
\* sample n, sum_r (S[n][r][o] * X[n][i])^2, element o of the bias diagonal
\* sum_r S[n][r][o]^2; sum_batch sums the samples into one tensor
lin_extract_weight_diagonal(module, S, sum_batch, subsampling) ==
    LET X == subsample(module.input0, subsampling)
        term(n, o, i) ==
            SumSeq([r \in 1..Len(S[n]) |-> Sq(S[n][r][o] * X.value[n][i])])
    IN IF ~X.ok \/ Len(X.value) # Len(S) THEN Raised
       ELSE IF sum_batch
       THEN Value([o \in 1..module.out_features |->
                     [i \in 1..module.in_features |->
                        SumSeq([n \in 1..Len(S) |-> term(n, o, i)])]])
       ELSE Value([n \in 1..Len(S) |->
                     [o \in 1..module.out_features |->
                        [i \in 1..module.in_features |-> term(n, o, i)]]])

lin_extract_bias_diagonal(module, S, sum_batch, subsampling) ==
    LET term(n, o) == SumSeq([r \in 1..Len(S[n]) |-> Sq(S[n][r][o])])
    IN IF sum_batch
       THEN Value([o \in 1..module.out_features |->
                     SumSeq([n \in 1..Len(S) |-> term(n, o)])])
       ELSE Value([n \in 1..Len(S) |->
                     [o \in 1..module.out_features |-> term(n, o)]])

\* backpack.utils.conv: the same algebra on the unfolded input, summed over
\* the output positions
conv_extract_weight_diagonal(module, X, S, sum_batch) ==
    LET P == module.positions
        term(n, o, i) ==
            SumSeq([r \in 1..Len(S[n]) |->
                Sq(SumSeq([q \in 1..P |-> S[n][r][o][q] * X[n][i][q]]))])
    IN IF Len(X) # Len(S) THEN Raised
       ELSE IF sum_batch
       THEN Value([o \in 1..module.out_features |->
                     [i \in 1..module.kernel_size |->
                        SumSeq([n \in 1..Len(S) |-> term(n, o, i)])]])
       ELSE Value([n \in 1..Len(S) |->
                     [o \in 1..module.out_features |->
                        [i \in 1..module.kernel_size |-> term(n, o, i)]]])

conv_extract_bias_diagonal(module, S, sum_batch) ==
    LET P == module.positions
        term(n, o) ==
            SumSeq([r \in 1..Len(S[n]) |->
                Sq(SumSeq([q \in 1..P |-> S[n][r][o][q]]))])
    IN IF sum_batch
       THEN Value([o \in 1..module.out_features |->
                     SumSeq([n \in 1..Len(S) |-> term(n, o)])])
       ELSE Value([n \in 1..Len(S) |->
                     [o \in 1..module.out_features |-> term(n, o)]])

\* --- the extensions
VALID_LOSS_HESSIAN_STRATEGIES == {"EXACT", "SAMPLING"}

\* the severities of a layer type without a handler
FAIL_MODES == {"ERROR", "WARN", "SILENT"}

\* BackpropExtension.__init__: the severity an extension gets when its
\* constructor passes none
DefaultFailMode == "ERROR"

\* the layer types of the problems that have a handler in module_exts; both
\* registries list Linear and the convolutions, neither lists Softplus
DiagGGN_module_exts == {"Linear", "Conv"}

BatchDiagGGN_module_exts == {"Linear", "Conv"}

\* an extension that was never constructed
Unconstructed ==
    [ok |-> FALSE, loss_hessian_strategy |-> "none", savefield |-> "none",
     fail_mode |-> "none", module_exts |-> {}, subsampling |-> AllSamples]

\* a constructor that asks for a warning
DiagGGN_init_warn(loss_hessian_strategy, savefield, subsampling) ==
    IF loss_hessian_strategy \notin VALID_LOSS_HESSIAN_STRATEGIES
    THEN Unconstructed
    ELSE [ok |-> TRUE, loss_hessian_strategy |-> loss_hessian_strategy,
          savefield |-> savefield, fail_mode |-> "WARN",
          module_exts |-> DiagGGN_module_exts, subsampling |-> subsampling]

\* DiagGGN.__init__: the strategy is checked, the base class gets
\* fail_mode="ERROR" and the registry, the subsampling is stored as given
DiagGGN_init(loss_hessian_strategy, savefield, subsampling) ==
    IF loss_hessian_strategy \notin VALID_LOSS_HESSIAN_STRATEGIES
    THEN Unconstructed
    ELSE [ok |-> TRUE, loss_hessian_strategy |-> loss_hessian_strategy,
          savefield |-> savefield, fail_mode |-> "ERROR",
          module_exts |-> DiagGGN_module_exts, subsampling |-> subsampling]

\* BatchDiagGGN.__init__: the base class gets the savefield and the registry
\* and no fail_mode, so its default applies
BatchDiagGGN_init(loss_hessian_strategy, savefield, subsampling) ==
    IF loss_hessian_strategy \notin VALID_LOSS_HESSIAN_STRATEGIES
    THEN Unconstructed
    ELSE [ok |-> TRUE, loss_hessian_strategy |-> loss_hessian_strategy,
          savefield |-> savefield, fail_mode |-> DefaultFailMode,
          module_exts |-> BatchDiagGGN_module_exts, subsampling |-> subsampling]

DiagGGNExact(subsampling) == DiagGGN_init("EXACT", "diag_ggn_exact", subsampling)

BatchDiagGGNExact(subsampling) ==
    BatchDiagGGN_init("EXACT", "diag_ggn_exact_batch", subsampling)

\* an extension that forgets its subsampling
get_subsampling_none(ext) == AllSamples

get_subsampling(ext) == ext.subsampling

\* --- the handlers
DiagGGNLinear_bias(ext, module, backproped) ==
    lin_extract_bias_diagonal(module, backproped, TRUE, get_subsampling(ext))

DiagGGNLinear_weight(ext, module, backproped) ==
    lin_extract_weight_diagonal(module, backproped, TRUE, get_subsampling(ext))

BatchDiagGGNLinear_bias(ext, module, backproped) ==
    lin_extract_bias_diagonal(module, backproped, FALSE, get_subsampling(ext))

BatchDiagGGNLinear_weight(ext, module, backproped) ==
    lin_extract_weight_diagonal(module, backproped, FALSE, get_subsampling(ext))

DiagGGNConvND_bias(ext, module, backproped) ==
    conv_extract_bias_diagonal(module, backproped, TRUE)

ConvND_weight(ext, module, backproped, sum_batch) ==
    LET input == subsample_input(module, get_subsampling(ext))
    IN IF ~input.ok THEN Raised
       ELSE conv_extract_weight_diagonal(module, unfold(module, input.value),
                                         backproped, sum_batch)

\* a handler that unfolds the whole recorded input
DiagGGNConvND_weight_full_input(ext, module, backproped) ==
    conv_extract_weight_diagonal(module, unfold(module, module.input0),
                                 backproped, TRUE)

DiagGGNConvND_weight(ext, module, backproped) ==
    ConvND_weight(ext, module, backproped, TRUE)

BatchDiagGGNConvND_bias(ext, module, backproped) ==
    conv_extract_bias_diagonal(module, backproped, FALSE)

BatchDiagGGNConvND_weight(ext, module, backproped) ==
    ConvND_weight(ext, module, backproped, FALSE)

\* module_exts: the handler of an extension for a layer type and a parameter
Handler(slot, module, param, ext, backproped) ==
    IF module.kind = "Linear"
    THEN IF slot = "agg"
         THEN IF param = "bias" THEN DiagGGNLinear_bias(ext, module, backproped)
              ELSE DiagGGNLinear_weight(ext, module, backproped)
         ELSE IF param = "bias" THEN BatchDiagGGNLinear_bias(ext, module, backproped)
              ELSE BatchDiagGGNLinear_weight(ext, module, backproped)
    ELSE IF slot = "agg"
         THEN IF param = "bias" THEN DiagGGNConvND_bias(ext, module, backproped)
              ELSE DiagGGNConvND_weight(ext, module, backproped)
         ELSE IF param = "bias" THEN BatchDiagGGNConvND_bias(ext, module, backproped)
              ELSE BatchDiagGGNConvND_weight(ext, module, backproped)

\* --- the problems
LinearModule(N, seed, bias) ==
    [kind |-> "Linear", in_features |-> InDim, out_features |-> OutDim,
     kernel_size |-> 0, positions |-> 0, has_bias |-> bias,
     input0 |-> [n \in 1..N |-> [i \in 1..InDim |-> seed + n - i]]]

ConvModule(N, seed, bias) ==
    [kind |-> "Conv", in_features |-> SignalLen, out_features |-> OutDim,
     kernel_size |-> KernelSize, positions |-> SignalLen - KernelSize + 1,
     has_bias |-> bias,
     input0 |-> [n \in 1..N |-> [q \in 1..SignalLen |-> seed + n - q]]]

\* a layer without parameters and without a handler in either registry
SoftplusModule(N, seed) ==
    [kind |-> "Softplus", in_features |-> OutDim, out_features |-> OutDim,
     kernel_size |-> 0, positions |-> 0, has_bias |-> FALSE,
     input0 |-> [n \in 1..N |-> [i \in 1..OutDim |-> seed + n - i]]]

LayerKinds == {"Linear", "Conv", "Softplus"}

Module(kind, N, seed, bias) ==
    IF kind = "Linear" THEN LinearModule(N, seed, bias)
    ELSE IF kind = "Conv" THEN ConvModule(N, seed, bias)
    ELSE SoftplusModule(N, seed)

\* the square-root GGN at the layer's output, one slice per sample
SqrtGGN(module, N, seed) ==
    IF module.kind # "Conv"
    THEN [n \in 1..N |-> [r \in 1..Rank |->
            [o \in 1..OutDim |-> (seed + 1) * n + r - o]]]
    ELSE [n \in 1..N |-> [r \in 1..Rank |->
            [o \in 1..OutDim |->
                [q \in 1..module.positions |-> (seed + 1) * n + r - o + q]]]]

Subsamplings(N) ==
    {AllSamples} \cup
    {Indices(idx) : idx \in UNION {[1..k -> (0 - 1)..N] : k \in 1..MaxSub}}

ValidSubsampling(subsampling, N) ==
    \A k \in 1..Len(subsampling.idx) :
        subsampling.idx[k] >= 0 /\ subsampling.idx[k] < N

NoProblem == [module |-> LinearModule(0, 0, FALSE), S |-> <<>>,
              subsampling |-> AllSamples]

NoValue == [set |-> FALSE, value |-> <<>>]

NoExt == DiagGGN_init("none", "none", AllSamples)

Idle == [pc |-> "new", ext |-> NoExt, backproped |-> <<>>,
         bias |-> NoValue, weight |-> NoValue, error |-> "none",
         warnings |-> 0]

Slots == {"agg", "bat"}

\* ------------------------------------------ elementwise derivatives
\* exact fractions num / den in lowest terms, den > 0
RECURSIVE GCD(_, _)
GCD(a, b) == IF b = 0 THEN a ELSE GCD(b, a % b)

Abs(x) == IF x < 0 THEN 0 - x ELSE x

Frac(num, den) ==
    LET g == GCD(Abs(num), Abs(den))
        sgn == IF den < 0 THEN 0 - 1 ELSE 1
    IN [num |-> sgn * (num \div g), den |-> sgn * (den \div g)]

FracMul(a, b) == Frac(a.num * b.num, a.den * b.den)

\* 1 / (1 - p)
FracInvOneMinus(p) == Frac(p.den, p.den - p.num)

FracOfInt(x) == Frac(x, 1)

\* an entry of a derivative tensor: a number, or one of the expressions in
\* exp(z) that have no exact value, kept as an expression of z
Const(q) == [fn |-> "const", arg |-> q]

\* temp / (temp + 1) with temp = exp(z)
SigmoidOf(z) == [fn |-> "temp/(temp+1)", arg |-> FracOfInt(z)]

\* beta * val / (val + 1) ** 2
D2Of(z) == [fn |-> "beta*val/(val+1)**2", arg |-> FracOfInt(z)]

\* torch.nn.Dropout in training mode: every entry is kept or zeroed, the kept
\* ones are scaled by 1 / (1 - p); with p = 0 every entry is kept
DropoutMasks(p, n) ==
    IF p.num = 0 THEN {[i \in 1..n |-> 1]} ELSE [1..n -> {0, 1}]

DropoutForward(module, mask) ==
    [module EXCEPT
       !.recorded = TRUE,
       !.mask = mask,
       !.output = [i \in 1..Len(module.input) |->
                     FracMul(FracMul(FracOfInt(module.input[i]),
                                     FracOfInt(mask[i])),
                             FracInvOneMinus(module.p))]]

subsample_output(module, subsampling) == subsample(module.output, subsampling)

\* torch.eq(output, 0.0).float()
eq_zero(x) == IF x.num = 0 THEN 1 ELSE 0

\* DropoutDerivatives.df
DropoutDerivatives_df(module, subsampling) ==
    LET scaling == FracInvOneMinus(module.p)
        output == subsample_output(module, subsampling)
        mask == [k \in 1..Len(output.value) |-> 1 - eq_zero(output.value[k])]
    IN IF ~output.ok THEN [ok |-> FALSE, error |-> "IndexError", value |-> <<>>]
       ELSE [ok |-> TRUE, error |-> "none",
             value |-> [k \in 1..Len(mask) |->
                          Const(FracMul(FracOfInt(mask[k]), scaling))]]

\* SoftplusDerivatives.df
SoftplusDerivatives_df(module, subsampling) ==
    LET output == subsample(module.output, subsampling)
        one == Const(FracOfInt(1))
        val(k) == SigmoidOf(module.beta * output.value[k].num)
    IN IF ~output.ok THEN [ok |-> FALSE, error |-> "IndexError", value |-> <<>>]
       ELSE [ok |-> TRUE, error |-> "none",
             value |-> [k \in 1..Len(output.value) |->
                          IF module.beta * output.value[k].num > module.threshold
                          THEN one ELSE val(k)]]

\* the names a statement of SoftplusDerivatives.d2f can read when the body
\* starts: its parameters and the names of the module softplus.py
d2f_parameters == {"self", "module", "g_inp", "g_out"}

softplus_globals ==
    {"List", "Tuple", "torch", "Tensor", "Softplus", "ElementwiseDerivatives",
     "subsample", "SoftplusDerivatives"}

\* SoftplusDerivatives.d2f: the first statement reads `output`, the third
\* reads `val` on its own right-hand side; a name that is not bound raises
SoftplusDerivatives_d2f(module) ==
    IF "output" \notin d2f_parameters \cup softplus_globals
    THEN [ok |-> FALSE, error |-> "NameError", value |-> <<>>]
    ELSE IF "val" \notin d2f_parameters \cup softplus_globals
    THEN [ok |-> FALSE, error |-> "UnboundLocalError", value |-> <<>>]
    ELSE LET zero == Const(FracOfInt(0))
         IN [ok |-> TRUE, error |-> "none",
             value |-> [k \in 1..Len(module.output) |->
                          IF module.beta * module.output[k].num > module.threshold
                          THEN zero
                          ELSE D2Of(module.beta * module.output[k].num)]]

\* --- the layers
DropoutRates == {Frac(0, 1), Frac(1, 3), Frac(1, 2)}

DropoutInputs == {0 - 1, 0, 2}

SoftplusBetas == {1, 2}

SoftplusThresholds == {2}

SoftplusOutputs == {0, 1, 3}

Tensors(values) == UNION {[1..n -> values] : n \in 1..MaxEntries}

DropoutModule(p, input) ==
    [kind |-> "Dropout", p |-> p, beta |-> 0, threshold |-> 0,
     input |-> input, recorded |-> FALSE, mask |-> <<>>, output |-> <<>>]

SoftplusLayer(beta, threshold, output) ==
    [kind |-> "Softplus", p |-> Frac(0, 1), beta |-> beta,
     threshold |-> threshold, input |-> <<>>, recorded |-> TRUE,
     mask |-> <<>>,
     output |-> [i \in 1..Len(output) |-> FracOfInt(output[i])]]

NoLayer == DropoutModule(Frac(0, 1), <<>>)

NoDeriv == [op |-> "none", subsampling |-> AllSamples, ok |-> FALSE,
            error |-> "none", value |-> <<>>]

Called(op, subsampling, r) ==
    [op |-> op, subsampling |-> subsampling, ok |-> r.ok, error |-> r.error,
     value |-> r.value]

\* the subsamplings a caller passes to df: none, or one sample of the batch
EntryChoices(n) == {AllSamples} \cup {Indices(<<i>>) : i \in 0..(n - 1)}

\* --------------------------------------------------------------- the group: actions
PInit ==
    /\ \E k \in 1..MaxChildren, seed \in Seeds :
         \E shapes \in [1..k -> LayerShapes] :
            orig = ParallelInit([c \in 1..k |->
                      UserLayer(seed, c, shapes[c].in_features,
                                shapes[c].out_features, shapes[c].bias)])
    /\ cur = orig
    /\ res = NoResult
    /\ prev = NoResult
    /\ bufs = <<>>
    /\ fw = NoForward
    /\ nops = 0
    /\ nfw = 0
    /\ problem = NoProblem
    /\ sweep = [slot \in Slots |-> Idle]
    /\ act = NoLayer
    /\ deriv = NoDeriv

\* an error raised by unite or split propagates to the caller: the run ends
\* with the failed call
Running == res.status \in {"none", "ok"}

\* a call G.unite() on the current group; on success the caller goes on with
\* the returned group. Until the first call the current group is the object
\* G itself, so what the call does to its receiver it does to G
Unite ==
    /\ Running
    /\ nops < MaxOps
    /\ LET r == unite(cur)
       IN /\ res' = Result("unite", <<>>, cur, r)
          /\ cur' = IF r.status = "ok" THEN r.group ELSE r.self
          /\ orig' = IF nops = 0 THEN r.self ELSE orig
    /\ prev' = res
    /\ nops' = nops + 1
    /\ UNCHANGED <<bufs, fw, nfw, gvars, avars>>

Split ==
    /\ Running
    /\ nops < MaxOps
    /\ \E out_features_list \in SizeLists :
         LET r == split(cur, out_features_list)
         IN /\ res' = Result("split", out_features_list, cur, r)
            /\ cur' = IF r.status = "ok" THEN r.group ELSE r.self
            /\ orig' = IF nops = 0 THEN r.self ELSE orig
    /\ prev' = res
    /\ nops' = nops + 1
    /\ UNCHANGED <<bufs, fw, nfw, gvars, avars>>

\* a forward pass of the current group; before the first successful call the
\* current group is G itself
Forward ==
    /\ Running
    /\ nfw < MaxForward
    /\ \E xseed \in XSeeds :
         LET input == Batch(xseed, cur.children[1].in_features)
             f == forward(cur, input, bufs)
         IN /\ cur' = f.group
            /\ orig' = IF nops = 0 THEN f.group ELSE orig
            /\ bufs' = f.heap
            /\ fw' = [writes |-> f.writes, ok |-> f.ok, output |-> f.output,
                      input |-> input]
    /\ nfw' = nfw + 1
    /\ UNCHANGED <<res, prev, nops, gvars, avars>>

PNext == Unite \/ Split \/ Forward

Spec == PInit /\ [][PNext]_vars

\* ------------------------------------- the group: one split, any sizes
\* a call G.split(out_features_list) with an arbitrary list of integers
SplitAny ==
    /\ nops = 0
    /\ \E out_features_list \in WideSizeLists :
         LET r == split(cur, out_features_list)
         IN /\ res' = Result("split", out_features_list, cur, r)
            /\ cur' = IF r.status = "ok" THEN r.group ELSE r.self
            /\ orig' = r.self
    /\ prev' = res
    /\ nops' = nops + 1
    /\ UNCHANGED <<bufs, fw, nfw, gvars, avars>>

SNext == SplitAny

SpecSplit == PInit /\ [][SNext]_vars

\* ------------------------------------------- diagonal GGN: the sweep
\* the caller constructs the extension with its subsampling
Construct(slot, e) ==
    LET ext == IF slot = "agg" THEN DiagGGNExact(problem.subsampling)
               ELSE BatchDiagGGNExact(problem.subsampling)
    IN IF ext.ok
       THEN [e EXCEPT !.pc = "ready", !.ext = ext]
       ELSE [e EXCEPT !.pc = "error", !.error = "ValueError"]

\* the sweep starts: the square-root GGN of the samples of the subsampling
\* arrives at the layer
\* then the layer is visited: a layer type without a handler is treated
\* with the extension's severity
Backpropagate(slot, e) ==
    LET S == subsample(problem.S, get_subsampling(e.ext))
    IN IF ~S.ok
       THEN [e EXCEPT !.pc = "error", !.error = "InvalidSubsamplingIndexError"]
       ELSE IF problem.module.kind \in e.ext.module_exts
       THEN [e EXCEPT !.pc = IF problem.module.has_bias THEN "bias" ELSE "weight",
                      !.backproped = S.value]
       ELSE IF e.ext.fail_mode = "ERROR"
       THEN [e EXCEPT !.pc = "error", !.error = "UnsupportedLayerError"]
       ELSE IF e.ext.fail_mode = "WARN"
       THEN [e EXCEPT !.pc = "done", !.warnings = 1]
       ELSE [e EXCEPT !.pc = "done"]

\* the handler of one parameter runs and its result is saved in the
\* extension's savefield
Extract(slot, e, param) ==
    LET v == Handler(slot, problem.module, param, e.ext, e.backproped)
        saved == [set |-> TRUE, value |-> v.value]
    IN IF ~v.ok
       THEN [e EXCEPT !.pc = "error", !.error = "InvalidSubsamplingIndexError"]
       ELSE IF param = "bias"
       THEN [e EXCEPT !.pc = "weight", !.bias = saved]
       ELSE [e EXCEPT !.pc = "done", !.weight = saved]

GInit ==
    /\ \E N \in 1..MaxBatch, seed \in DataSeeds, bias \in BOOLEAN,
          kind \in LayerKinds :
         \E subsampling \in Subsamplings(N) :
            LET module == Module(kind, N, seed, bias)
            IN problem = [module |-> module, S |-> SqrtGGN(module, N, seed),
                          subsampling |-> subsampling]
    /\ sweep = [slot \in Slots |-> Idle]
    /\ orig = NoGroup /\ cur = NoGroup
    /\ res = NoResult /\ prev = NoResult
    /\ bufs = <<>> /\ fw = NoForward
    /\ nops = 0 /\ nfw = 0
    /\ act = NoLayer /\ deriv = NoDeriv

ConstructExtension ==
    /\ \E slot \in Slots :
         /\ sweep[slot].pc = "new"
         /\ sweep' = [sweep EXCEPT ![slot] = Construct(slot, sweep[slot])]
    /\ UNCHANGED <<problem, pvars, avars>>

StartSweep ==
    /\ \E slot \in Slots :
         /\ sweep[slot].pc = "ready"
         /\ sweep' = [sweep EXCEPT ![slot] = Backpropagate(slot, sweep[slot])]
    /\ UNCHANGED <<problem, pvars, avars>>

ExtractBias ==
    /\ \E slot \in Slots :
         /\ sweep[slot].pc = "bias"
         /\ sweep' = [sweep EXCEPT ![slot] = Extract(slot, sweep[slot], "bias")]
    /\ UNCHANGED <<problem, pvars, avars>>

ExtractWeight ==
    /\ \E slot \in Slots :
         /\ sweep[slot].pc = "weight"
         /\ sweep' = [sweep EXCEPT ![slot] = Extract(slot, sweep[slot], "weight")]
    /\ UNCHANGED <<problem, pvars, avars>>

GNext == ConstructExtension \/ StartSweep \/ ExtractBias \/ ExtractWeight

SpecGGN == GInit /\ [][GNext]_vars

\* --------------------------------- elementwise derivatives: the calls
AInit ==
    /\ \/ \E p \in DropoutRates, input \in Tensors(DropoutInputs) :
            act = DropoutModule(p, input)
       \/ \E beta \in SoftplusBetas, threshold \in SoftplusThresholds,
             output \in Tensors(SoftplusOutputs) :
            act = SoftplusLayer(beta, threshold, output)
    /\ deriv = NoDeriv
    /\ problem = NoProblem
    /\ sweep = [slot \in Slots |-> Idle]
    /\ orig = NoGroup /\ cur = NoGroup
    /\ res = NoResult /\ prev = NoResult
    /\ bufs = <<>> /\ fw = NoForward
    /\ nops = 0 /\ nfw = 0

\* the forward pass of the Dropout layer draws the mask and records the output
ForwardDropout ==
    /\ act.kind = "Dropout"
    /\ ~act.recorded
    /\ \E mask \in DropoutMasks(act.p, Len(act.input)) :
         act' = DropoutForward(act, mask)
    /\ UNCHANGED <<deriv, pvars, gvars>>

DfDropout ==
    /\ act.kind = "Dropout"
    /\ act.recorded
    /\ deriv.op = "none"
    /\ \E subsampling \in EntryChoices(Len(act.output)) :
         deriv' = Called("df", subsampling,
                         DropoutDerivatives_df(act, subsampling))
    /\ UNCHANGED <<act, pvars, gvars>>

DfSoftplus ==
    /\ act.kind = "Softplus"
    /\ deriv.op = "none"
    /\ \E subsampling \in EntryChoices(Len(act.output)) :
         deriv' = Called("df", subsampling,
                         SoftplusDerivatives_df(act, subsampling))
    /\ UNCHANGED <<act, pvars, gvars>>

D2fSoftplus ==
    /\ act.kind = "Softplus"
    /\ deriv.op = "none"
    /\ deriv' = Called("d2f", AllSamples, SoftplusDerivatives_d2f(act))
    /\ UNCHANGED <<act, pvars, gvars>>

ANext == ForwardDropout \/ DfDropout \/ DfSoftplus \/ D2fSoftplus

SpecAct == AInit /\ [][ANext]_vars

\* ------------------------------------------------- properties: the group
Sizes(g) == [k \in 1..Len(g.children) |-> g.children[k].out_features]

TotalOut(g) == SumSeq(Sizes(g))

\* the number of rows of the children before child k
Offset(g, k) == SumSeq(SubSeq(Sizes(g), 1, k - 1))

Uniform(g) ==
    \A j, k \in 1..Len(g.children) :
        /\ g.children[j].in_features = g.children[k].in_features
        /\ g.children[j].has_bias = g.children[k].has_bias

SameParameters(a, b) ==
    /\ a.in_features = b.in_features
    /\ a.out_features = b.out_features
    /\ a.weight = b.weight
    /\ a.has_bias = b.has_bias
    /\ a.bias = b.bias

\* the last two calls were G.unite() and then, on the group it returned,
\* split with the sizes of G's children
RoundTripCase ==
    /\ prev.op = "unite" /\ prev.status = "ok"
    /\ res.op = "split" /\ res.src = prev.group
    /\ res.arg = Sizes(prev.src)

\* C1: G.unite().split(sizes of G's children) succeeds and returns a group
\* with as many children as G, whose i-th child has the weight, the bias and
\* the mean_input buffer of G's i-th child, and whose own mean_input buffer is
\* G's; the parameters are equal entry by entry.
UniteSplitIdentity ==
    RoundTripCase =>
        LET G == prev.src
            R == res.group
        IN /\ res.status = "ok"
           /\ Len(R.children) = Len(G.children)
           /\ \A i \in 1..Len(G.children) :
                /\ SameParameters(R.children[i], G.children[i])
                /\ R.children[i].mean_input = G.children[i].mean_input
           /\ R.mean_input = G.mean_input

UniteSplitIdentityWitness ==
    /\ RoundTripCase
    /\ res.status = "ok"
    /\ Sizes(prev.src) = <<1, 2>>
    /\ prev.src.children[1].has_bias
    /\ prev.src.mean_input # NoBuf
    /\ res.group.children[2].weight = prev.src.children[2].weight

\* C2: a successful unite returns a group with exactly one child, whose
\* out_features is the sum of the siblings' out_features, whose weight holds
\* the siblings' rows in group order and whose bias (when the siblings have
\* one) holds the siblings' biases in the same order; the returned group's
\* out_features_list is the one-element list holding that sum.
UniteConcatenates ==
    (res.op = "unite" /\ res.status = "ok") =>
        LET G == res.src
            U == res.group
            L == U.children[1]
        IN /\ Len(U.children) = 1
           /\ L.out_features = TotalOut(G)
           /\ Len(L.weight) = TotalOut(G)
           /\ L.in_features = G.children[1].in_features
           /\ L.has_bias = G.children[1].has_bias
           /\ Len(L.bias) = (IF L.has_bias THEN TotalOut(G) ELSE 0)
           /\ \A k \in 1..Len(G.children) :
                \A r \in 1..G.children[k].out_features :
                    /\ L.weight[Offset(G, k) + r] = G.children[k].weight[r]
                    /\ L.has_bias =>
                         L.bias[Offset(G, k) + r] = G.children[k].bias[r]
           /\ U.out_features_list = <<TotalOut(G)>>

UniteConcatenatesWitness ==
    /\ res.op = "unite" /\ res.status = "ok"
    /\ Sizes(res.src) = <<2, 1>>
    /\ res.src.children[1].has_bias
    /\ res.group.out_features_list = <<3>>
    /\ res.group.children[1].weight[3] = res.src.children[2].weight[1]

\* the inputs the outputs of two groups are compared on
TestInputs(in_features) == [1..in_features -> {0, 1}]

\* C3: after any sequence of successful unite and split calls the resulting
\* group gives, for every input, the forward output of the original group.
ForwardPreserved ==
    (Running /\ nops > 0) =>
        \A x \in TestInputs(orig.children[1].in_features) :
            GroupForward(cur, x) = GroupForward(orig, x)

ForwardPreservedWitness ==
    /\ Running
    /\ nops = 2
    /\ prev.op = "split" /\ res.op = "split"
    /\ Len(orig.children) = 2
    /\ Len(cur.children) = 2
    /\ Sizes(cur) # Sizes(orig)
    /\ orig.children[1].has_bias
    /\ \E x \in TestInputs(orig.children[1].in_features) :
          /\ GroupForward(cur, x) = GroupForward(orig, x)
          /\ \E r \in 1..Len(GroupForward(cur, x)) : GroupForward(cur, x)[r] # 0

ReferToGroupBuffer(g) ==
    \A k \in 1..Len(g.children) : g.children[k].mean_input = g.mean_input

\* C4: every group, built directly or returned by unite or split, has one
\* pre-forward hook of its own and children whose extension hooks are
\* disabled; a forward pass writes mean_input at most once, and after it every
\* child refers to the value written.
SingleWritePerForward ==
    /\ \A g \in {orig, cur} :
         /\ g.hooks = 1
         /\ \A k \in 1..Len(g.children) : ~g.children[k].exts
    /\ nfw > 0 =>
         /\ fw.writes <= 1
         /\ cur.mean_input # NoBuf
         /\ \A k \in 1..Len(cur.children) :
              bufs[cur.children[k].mean_input] = MeanInput(fw.input)

SingleWritePerForwardWitness ==
    /\ nfw > 0
    /\ fw.writes = 1
    /\ res.op = "split" /\ res.status = "ok"
    /\ Len(cur.children) = 2
    /\ cur.mean_input # res.group.mean_input

\* C5: when the receiver of a successful unite or split holds a mean_input
\* buffer, the returned group and every child of it refer to that very buffer
\* and no new buffer is made; after a forward pass every child of the group
\* refers to the group's own buffer.
BufferSharedByReference ==
    /\ (res.status = "ok" /\ res.src.mean_input # NoBuf) =>
         /\ res.group.mean_input = res.src.mean_input
         /\ ReferToGroupBuffer(res.group)
    /\ Len(bufs) = nfw
    /\ nfw > 0 => (cur.mean_input # NoBuf /\ ReferToGroupBuffer(cur))

BufferSharedByReferenceWitness ==
    /\ res.op = "split" /\ res.status = "ok"
    /\ res.src.mean_input # NoBuf
    /\ Len(res.group.children) = 2
    /\ res.group.children[2].mean_input = res.src.mean_input

\* C6: unite fails, returning no group, exactly when the siblings disagree on
\* in_features or on the presence of a bias; split fails in the same cases.
UniteRejectsInconsistent ==
    /\ res.op = "unite" =>
         /\ res.status = (IF Uniform(res.src) THEN "ok" ELSE "ValueError")
         /\ res.status # "ok" => res.group = NoGroup
         /\ res.status = "ok" => res.group # NoGroup
    /\ (res.op = "split" /\ ~Uniform(res.src)) =>
         (res.status = "ValueError" /\ res.group = NoGroup)

UniteRejectsInconsistentWitness ==
    /\ res.op = "unite"
    /\ res.status = "ValueError"
    /\ res.src.children[1].in_features = res.src.children[2].in_features
    /\ res.src.children[1].has_bias # res.src.children[2].has_bias

\* C7: split fails, returning no group, whenever the sizes do not sum to the
\* total output features; on a consistent group the failure comes after the
\* merge and before any child layer is created.
SplitRejectsBadPartition ==
    (res.op = "split" /\ SumSeq(res.arg) # TotalOut(res.src)) =>
        /\ res.status = "ValueError"
        /\ res.group = NoGroup
        /\ \A n \in 1..Len(res.trace) : res.trace[n] # "child"
        /\ Uniform(res.src) => res.trace = <<"unite", "check">>

SplitRejectsBadPartitionWitness ==
    /\ res.op = "split"
    /\ Uniform(res.src)
    /\ SumSeq(res.arg) > TotalOut(res.src)
    /\ res.status = "ValueError"
    /\ res.trace = <<"unite", "check">>

\* all rows, and all bias entries, of a group in group order
Rows(g) == cat([k \in 1..Len(g.children) |-> g.children[k].weight])

Biases(g) == cat([k \in 1..Len(g.children) |-> g.children[k].bias])

\* C8: on a consistent group without a mean_input buffer unite and split
\* (with sizes that sum to the total) succeed with a warning; the returned
\* group has the rows and biases of the receiver, in the requested sizes, and
\* neither it nor its children have a mean_input buffer.
NoBufferStillSucceeds ==
    (/\ res.op \in {"unite", "split"}
     /\ res.src.mean_input = NoBuf
     /\ Uniform(res.src)
     /\ res.op = "split" => SumSeq(res.arg) = TotalOut(res.src)) =>
        /\ res.status = "ok"
        /\ res.warnings >= 1
        /\ res.group.mean_input = NoBuf
        /\ \A k \in 1..Len(res.group.children) :
             res.group.children[k].mean_input = NoBuf
        /\ Rows(res.group) = Rows(res.src)
        /\ Biases(res.group) = Biases(res.src)
        /\ Sizes(res.group) =
             (IF res.op = "unite" THEN <<TotalOut(res.src)>> ELSE res.arg)
        /\ \A k \in 1..Len(res.group.children) :
             Len(res.group.children[k].weight) = Sizes(res.group)[k]

NoBufferStillSucceedsWitness ==
    /\ res.op = "split" /\ res.status = "ok"
    /\ res.src.mean_input = NoBuf
    /\ res.warnings = 2
    /\ Len(res.src.children) = 2
    /\ Sizes(res.group) # Sizes(res.src)

\* ------------------------------------------- properties: diagonal GGN
agg == sweep["agg"]

bat == sweep["bat"]

BatchSize == Len(problem.module.input0)

\* C9: for linear and convolutional layers, every batch size, square-root GGN
\* and subsampling, the weight and bias buffers of the aggregate extension
\* equal the sum over the sample axis of the buffers of the per-sample
\* extension.
AggregateIsSumOfPerSample ==
    (agg.pc = "done" /\ bat.pc = "done") =>
        /\ agg.weight.set /\ bat.weight.set
        /\ Len(agg.weight.value) = problem.module.out_features
        /\ \A o \in 1..Len(agg.weight.value) :
             \A i \in 1..Len(agg.weight.value[o]) :
                agg.weight.value[o][i] =
                    SumSeq([n \in 1..Len(bat.weight.value) |->
                               bat.weight.value[n][o][i]])
        /\ problem.module.has_bias =>
             /\ agg.bias.set /\ bat.bias.set
             /\ \A o \in 1..Len(agg.bias.value) :
                  agg.bias.value[o] =
                      SumSeq([n \in 1..Len(bat.bias.value) |->
                                 bat.bias.value[n][o]])

AggregateIsSumOfPerSampleWitness ==
    /\ agg.pc = "done" /\ bat.pc = "done"
    /\ problem.module.kind = "Conv"
    /\ problem.module.has_bias
    /\ problem.subsampling = Indices(<<1, 0>>)
    /\ Len(bat.weight.value) = 2
    /\ bat.weight.value[1] # bat.weight.value[2]
    /\ agg.weight.value[1][1] > 0
    /\ agg.bias.value[1] > 0

\* C10: with a subsampling that holds an index outside [0, batch_size) no
\* extension ever saves a result buffer, for linear and convolutional layers,
\* weight and bias: the sweep ends with InvalidSubsamplingIndexError.
InvalidIndexYieldsNoResult ==
    ~ValidSubsampling(problem.subsampling, BatchSize) =>
        \A slot \in Slots :
            /\ ~sweep[slot].bias.set
            /\ ~sweep[slot].weight.set
            /\ sweep[slot].pc \in {"new", "ready", "error"}
            /\ sweep[slot].pc = "error" =>
                 sweep[slot].error = "InvalidSubsamplingIndexError"

InvalidIndexYieldsNoResultWitness ==
    /\ ~ValidSubsampling(problem.subsampling, BatchSize)
    /\ problem.module.kind = "Conv"
    /\ problem.module.has_bias
    /\ agg.pc = "error" /\ bat.pc = "error"
    /\ agg.error = "InvalidSubsamplingIndexError"

\* --- C11: both exact extensions are constructed with the severity ERROR, and
\* a sweep of either that visits a layer type without a handler in the
\* extension's registry aborts: it ends in the error, it has saved no result
\* and it has not merely warned
Unsupported(slot) == problem.module.kind \notin sweep[slot].ext.module_exts

UnsupportedLayerAborts ==
    \A slot \in Slots :
        /\ sweep[slot].ext.ok => sweep[slot].ext.fail_mode = "ERROR"
        /\ (sweep[slot].ext.ok /\ Unsupported(slot)
              /\ sweep[slot].pc \notin {"new", "ready"})
           => /\ sweep[slot].pc = "error"
              /\ sweep[slot].error \in {"UnsupportedLayerError",
                                        "InvalidSubsamplingIndexError"}
              /\ sweep[slot].warnings = 0
              /\ sweep[slot].bias = NoValue
              /\ sweep[slot].weight = NoValue

\* both sweeps met the Softplus layer, with all samples present, and aborted
UnsupportedLayerAbortsWitness ==
    /\ problem.module.kind = "Softplus"
    /\ problem.subsampling = AllSamples
    /\ \A slot \in Slots :
          /\ sweep[slot].pc = "error"
          /\ sweep[slot].error = "UnsupportedLayerError"
\* ------------------------------- properties: elementwise derivatives
\* the recorded entry that entry k of the last derivative tensor belongs to
Entry(k) == IF deriv.subsampling.all THEN k ELSE deriv.subsampling.idx[k] + 1

\* --- C12: after a forward pass of a Dropout layer with rate p, df is
\* 1 / (1 - p) at every entry the mask kept and 0 at every entry it zeroed;
\* with p = 0 it is 1 at every entry, whatever the input was
DropoutDfFollowsMask ==
    (act.kind = "Dropout" /\ deriv.op = "df")
    => /\ deriv.ok
       /\ \A k \in 1..Len(deriv.value) :
            /\ act.mask[Entry(k)] = 1
               => deriv.value[k] = Const(FracInvOneMinus(act.p))
            /\ act.mask[Entry(k)] = 0
               => deriv.value[k] = Const(FracOfInt(0))
            /\ act.p = Frac(0, 1) => deriv.value[k] = Const(FracOfInt(1))

\* --- C13: on a Softplus layer both df and d2f return a tensor; where beta
\* times the recorded activation exceeds the threshold df is 1 and d2f is 0,
\* elsewhere they are the first and second derivative expressions
SoftplusDerivativesReturn ==
    (act.kind = "Softplus" /\ deriv.op # "none")
    => /\ deriv.ok
       /\ Len(deriv.value) = IF deriv.subsampling.all THEN Len(act.output)
                             ELSE Len(deriv.subsampling.idx)
       /\ \A k \in 1..Len(deriv.value) :
            LET z == act.beta * act.output[Entry(k)].num
            IN IF z > act.threshold
               THEN deriv.value[k] = IF deriv.op = "df" THEN Const(FracOfInt(1))
                                     ELSE Const(FracOfInt(0))
               ELSE deriv.value[k] = IF deriv.op = "df" THEN SigmoidOf(z)
                                     ELSE D2Of(z)
\* ------------------------------------------- properties: the receiver
\* --- C14: a call of unite or split, whether it returns or raises, leaves
\* the group it was called on as it was: the same children in the same order,
\* each with its in_features, out_features, weight, bias and buffer, and the
\* same mean_input buffer with the same content; the group G built by the
\* user is changed by no call
ReceiverUnchanged ==
    [][(nops' # nops) =>
         /\ res'.src = cur
         /\ res'.after = res'.src
         /\ res'.status # "ok" => cur' = cur
         /\ orig' = orig
         /\ bufs' = bufs]_vars

\* G, with two children of different sizes, biases and a mean_input buffer,
\* was merged and the group that returned was split into other sizes: G is as
\* it was after the first call, the merged group after the second
ReceiverUnchangedWitness ==
    /\ nops = 2
    /\ res.op = "split" /\ res.status = "ok"
    /\ prev.op = "unite" /\ prev.src = orig /\ prev.after = orig
    /\ Sizes(orig) = <<1, 2>>
    /\ orig.children[1].has_bias
    /\ orig.mean_input # NoBuf
    /\ res.after = prev.group
    /\ Sizes(res.group) # Sizes(res.src)
\* ----------------------------------------- properties: the partition
\* the call was a split of a consistent group with sizes that pass the check
SplitChecked ==
    /\ res.op = "split"
    /\ Uniform(res.src)
    /\ SumSeq(res.arg) = TotalOut(res.src)

\* the returned group cuts the merged rows in the requested sizes: child i
\* has res.arg[i] rows (and biases), they are the rows c_{i-1}+1 .. c_i of the
\* merged weight, the ranges follow one another from 0 to the total, and the
\* children in order give back the merged weight and bias
IsPartition ==
    LET c == <<0>> \o cumsum(res.arg)
        k == Len(res.arg)
        W == Rows(res.src)
        B == Biases(res.src)
        ch == res.group.children
    IN /\ res.status = "ok"
       /\ Len(ch) = k
       /\ \A i \in 1..k :
            /\ ch[i].out_features = res.arg[i]
            /\ Len(ch[i].weight) = res.arg[i]
            /\ ch[i].has_bias => Len(ch[i].bias) = res.arg[i]
            /\ c[i] <= c[i + 1]
            /\ ch[i].weight = [r \in 1..res.arg[i] |-> W[c[i] + r]]
            /\ ch[i].has_bias => ch[i].bias = [r \in 1..res.arg[i] |-> B[c[i] + r]]
       /\ c[k + 1] = Len(W)
       /\ Rows(res.group) = W
       /\ Biases(res.group) = B

\* --- C15 as stated: every list that passes the sum check is cut into such a
\* partition
SplitPartitionsEveryCheckedList == SplitChecked => IsPartition

\* --- C15: every list of sizes none of which is negative and that pass the
\* sum check is cut into such a partition
SplitPartitions ==
    (SplitChecked /\ \A i \in 1..Len(res.arg) : res.arg[i] >= 0) => IsPartition

\* a group with sizes 1 and 2 and biases was split into sizes 2 and 1
SplitPartitionsWitness ==
    /\ SplitChecked
    /\ Sizes(res.src) = <<1, 2>>
    /\ res.src.children[1].has_bias
    /\ res.arg = <<2, 1>>
    /\ res.status = "ok"
    /\ res.group.children[1].weight[2] = res.src.children[2].weight[1]
====
